---- MODULE Spec2Model ----
(***************************************************************************)
(* Model of src/core/chatbot.py: the guarded retrieval chain               *)
(*   llm_guard_input | main_chain | llm_guard_output                       *)
(* and its driver chatbot_response.                                        *)
(*                                                                         *)
(* A Python str is a sequence of one-character strings; a literal of the   *)
(* source that is never searched or trimmed inside is kept as one token.   *)
(* A Python dict is a function from its keys to its values.                *)
(***************************************************************************)
EXTENDS Integers, Sequences, FiniteSets, TLC

VARIABLES
    OPENAI_API_KEY,      \* settings.OPENAI_API_KEY: TRUE iff a credential is configured
    qa_chain,            \* the chain create_chatbot_chain returned last, or "None"
    llm_cache,           \* the process-wide InMemoryCache: prompt text -> cached text
    generated,           \* per prompt, the texts the generation step returned since the
                         \* cache object was installed
    lastOp,              \* the operation that produced the current state
    question,            \* chatbot_response's question argument
    qa_input,            \* the dict llm_guard_input received
    guard_input_result,  \* the dict llm_guard_input returned
    scan_prompt_calls,   \* the texts handed to scan_prompt during the operation
    retriever_calls,     \* the queries handed to the retriever during the operation
    docs,                \* the documents format_docs received
    answer_bodies,       \* format_docs' list at its return
    context,             \* format_docs' return value
    prompt_text,         \* the text of the rendered prompt
    llm_calls,           \* the prompts handed to the generation step during the operation
    cache_hit,           \* whether the generation step was answered from llm_cache
    llm_response,        \* the text the generation step returned
    guard_output_calls,  \* the dicts llm_guard_output received during the operation
    scan_output_calls,   \* the <<prompt, output>> pairs handed to scan_output
    guard_output_result, \* the dict llm_guard_output returned
    outcome              \* what the operation gave its caller

vars == <<OPENAI_API_KEY, qa_chain, llm_cache, generated, lastOp,
          question, qa_input, guard_input_result, scan_prompt_calls, retriever_calls,
          docs, answer_bodies, context, prompt_text, llm_calls, cache_hit,
          llm_response, guard_output_calls, scan_output_calls, guard_output_result,
          outcome>>

----------------------------------------------------------------------------
(* Python str and dict operations                                          *)

Whitespace == {" ", "\n", "\t"}

EmptyStr == << >>

EmptyDict == << >>

RECURSIVE lstrip(_)
lstrip(s) ==
    IF s = << >> THEN << >>
    ELSE IF Head(s) \in Whitespace THEN lstrip(Tail(s)) ELSE s

RECURSIVE rstrip(_)
rstrip(s) ==
    IF s = << >> THEN << >>
    ELSE IF s[Len(s)] \in Whitespace THEN rstrip(SubSeq(s, 1, Len(s) - 1)) ELSE s

\* str.strip()
strip(s) == rstrip(lstrip(s))

\* s[i:] with a 0-based start
SliceFrom(s, i) == SubSeq(s, i + 1, Len(s))

StartsWithAt(s, sub, i) ==
    /\ i + Len(sub) <= Len(s)
    /\ \A k \in 1..Len(sub) : s[i + k] = sub[k]

RECURSIVE FindFrom(_, _, _)
FindFrom(s, sub, i) ==
    IF i + Len(sub) > Len(s) THEN -1
    ELSE IF StartsWithAt(s, sub, i) THEN i
    ELSE FindFrom(s, sub, i + 1)

\* str.find(sub): the lowest 0-based index of sub in s, or -1
find(s, sub) == FindFrom(s, sub, 0)

\* sub in s
In(sub, s) == \E i \in 0..Len(s) : StartsWithAt(s, sub, i)

RECURSIVE join(_, _)
\* sep.join(list)
join(sep, list) ==
    IF list = << >> THEN << >>
    ELSE IF Len(list) = 1 THEN list[1]
    ELSE list[1] \o sep \o join(sep, Tail(list))

\* dict.get(key, default)
get(d, key, default) == IF key \in DOMAIN d THEN d[key] ELSE default

----------------------------------------------------------------------------
(* create_chatbot_chain.format_docs                                        *)

AnswerBodyLabel == <<"A", "n", "s", "w", "e", "r", "B", "o", "d", "y", ":">>

DocSeparator == <<"\n", "\n">>

\* format_docs_step with the answer body left untrimmed
format_docs_step_untrimmed(bodies, content) ==
    IF In(AnswerBodyLabel, content)
    THEN LET answer_start == find(content, AnswerBodyLabel) + Len(AnswerBodyLabel)
         IN  Append(bodies, SliceFrom(content, answer_start))
    ELSE bodies

\* the body of the loop of format_docs for one document: the list after it
format_docs_step(bodies, content) ==
    IF In(AnswerBodyLabel, content)
    THEN LET answer_start == find(content, AnswerBodyLabel) + Len(AnswerBodyLabel)
             answer_body == strip(SliceFrom(content, answer_start))
         IN  Append(bodies, answer_body)
    ELSE bodies

RECURSIVE format_docs_loop(_, _)
format_docs_loop(bodies, ds) ==
    IF ds = << >> THEN bodies
    ELSE format_docs_loop(format_docs_step(bodies, Head(ds)), Tail(ds))

\* the list answer_bodies when format_docs returns
format_docs_bodies(ds) == format_docs_loop(<< >>, ds)

format_docs(ds) == join(DocSeparator, format_docs_bodies(ds))

----------------------------------------------------------------------------
(* llm_guard_input                                                         *)

\* input_scanners, in list order
input_scanners == <<"Toxicity", "PromptInjection", "Language", "BanTopics">>

InvalidInputMsg == <<"Invalid input. Please enter a valid question.">>

\* the text a scanner puts in place of what it redacts
Redacted == <<"[REDACTED]">>

\* scan_prompt(input_scanners, text, fail_fast=True) for the case that the
\* first n - 1 scanners accept and scanner n, if ok is FALSE, rejects: the maps
\* hold the scanners that ran, a rejecting scanner being the last one
ScanPromptResult(sanitized, n, ok) ==
    [sanitized_prompt |-> sanitized,
     results_valid |-> [i \in 1..n |-> ok \/ i < n],
     results_score |-> [i \in 1..n |-> IF ok \/ i < n THEN "0.0" ELSE "1.0"]]

\* what the scanners may answer for a text: they accept or reject it, and they
\* may rewrite it
ScanPromptOutcomes(text) ==
    {ScanPromptResult(s, Len(input_scanners), TRUE) : s \in {text, Redacted}}
    \cup {ScanPromptResult(text, n, FALSE) : n \in 1..Len(input_scanners)}

RECURSIVE ScoreItems(_, _)
ScoreItems(scores, i) ==
    IF i > Len(scores) THEN << >>
    ELSE <<input_scanners[i], scores[i]>> \o ScoreItems(scores, i + 1)

\* str(results_score) inside the f-string
ScoreRepr(scores) == ScoreItems(scores, 1)

InputRejectedMsg(scores) ==
    <<"Input rejected: ">> \o ScoreRepr(scores)
        \o <<". Your question violates policy.">>

\* any(not result for result in results_valid.values())
AnyInvalid(results_valid) == \E i \in DOMAIN results_valid : ~results_valid[i]

\* GuardQuestion without the strip()
GuardQuestion_unstripped(input) == get(input, "question", EmptyStr)

\* the question after line 105
GuardQuestion(input) == strip(get(input, "question", EmptyStr))

\* llm_guard_input(qa_input), scan being what scan_prompt answers when called:
\* the returned dict and the texts handed to scan_prompt
llm_guard_input(input, scan) ==
    LET q == GuardQuestion(input) IN
    IF q = EmptyStr
    THEN [result |-> [error |-> InvalidInputMsg], scanned |-> << >>]
    ELSE IF AnyInvalid(scan.results_valid)
    THEN [result |-> [error |-> InputRejectedMsg(scan.results_score)],
          scanned |-> <<q>>]
    ELSE [result |-> [question |-> scan.sanitized_prompt], scanned |-> <<q>>]

----------------------------------------------------------------------------
(* llm_guard_output                                                        *)

output_scanners == <<"LanguageSame", "Relevance", "Sensitive">>

RefusalMsg == <<"I cannot provide an answer to this question.">>

ResponseRejectedMsg == <<"response rejected. The model response violates policy!">>

\* scan_output(output_scanners, prompt, output): every scanner runs
ScanOutputOutcomes(output) ==
    {[sanitized_response |-> s,
      results_valid |-> [i \in 1..Len(output_scanners) |-> TRUE]] :
        s \in {output, Redacted}}
    \cup {[sanitized_response |-> output, results_valid |-> v] :
             v \in [1..Len(output_scanners) -> BOOLEAN] \
                     {[i \in 1..Len(output_scanners) |-> TRUE]}}

\* llm_guard_output with the generated text left untrimmed
llm_guard_output_unstripped(llm_output, scan) ==
    LET original_prompt == llm_output.question.text
        model_response == get(llm_output, "llm_response", EmptyStr)
    IN  IF model_response = EmptyStr
        THEN [result |-> [response |-> RefusalMsg], scanned |-> << >>]
        ELSE IF AnyInvalid(scan.results_valid)
        THEN [result |-> [response |-> ResponseRejectedMsg],
              scanned |-> <<<<original_prompt, model_response>>>>]
        ELSE [result |-> [response |-> scan.sanitized_response],
              scanned |-> <<<<original_prompt, model_response>>>>]

\* llm_guard_output with a policy rejection carried under "error"
llm_guard_output_errorkey(llm_output, scan) ==
    LET original_prompt == llm_output.question.text
        model_response == strip(get(llm_output, "llm_response", EmptyStr))
    IN  IF model_response = EmptyStr
        THEN [result |-> [response |-> RefusalMsg], scanned |-> << >>]
        ELSE IF AnyInvalid(scan.results_valid)
        THEN [result |-> [error |-> ResponseRejectedMsg],
              scanned |-> <<<<original_prompt, model_response>>>>]
        ELSE [result |-> [response |-> scan.sanitized_response],
              scanned |-> <<<<original_prompt, model_response>>>>]

\* llm_guard_output scanning against the generated text in place of the prompt
llm_guard_output_selfprompt(llm_output, scan) ==
    LET model_response == strip(get(llm_output, "llm_response", EmptyStr))
    IN  IF model_response = EmptyStr
        THEN [result |-> [response |-> RefusalMsg], scanned |-> << >>]
        ELSE IF AnyInvalid(scan.results_valid)
        THEN [result |-> [response |-> ResponseRejectedMsg],
              scanned |-> <<<<model_response, model_response>>>>]
        ELSE [result |-> [response |-> scan.sanitized_response],
              scanned |-> <<<<model_response, model_response>>>>]

\* llm_guard_output(llm_output), scan being what scan_output answers when
\* called: the returned dict and the <<prompt, output>> pairs handed to
\* scan_output. The chain always hands it a dict with "question", the prompt
\* value, whose .text line 133 reads.
llm_guard_output(llm_output, scan) ==
    LET original_prompt == llm_output.question.text
        model_response == strip(get(llm_output, "llm_response", EmptyStr))
    IN  IF model_response = EmptyStr
        THEN [result |-> [response |-> RefusalMsg], scanned |-> << >>]
        ELSE IF AnyInvalid(scan.results_valid)
        THEN [result |-> [response |-> ResponseRejectedMsg],
              scanned |-> <<<<original_prompt, model_response>>>>]
        ELSE [result |-> [response |-> scan.sanitized_response],
              scanned |-> <<<<original_prompt, model_response>>>>]

----------------------------------------------------------------------------
(* create_chatbot_chain: the prompt, the generation step, main_chain       *)

TemplateHead ==
    <<"You are a knowledgeable and empathetic assistant helping parents with\n    their questions.\n\n    ">>

TemplateQuestion == <<"\n\n    Question: ">>

TemplateTail == <<"\n    Answer:">>

\* str(d) of the dict {"question": text}
DictRepr(d) == <<"{'question': '">> \o d.question \o <<"'}">>

\* what the "question" branch of the first RunnableParallel gives for the
\* chain input x: RunnablePassthrough() hands on its input, the dict
PromptQuestion(x) == DictRepr(x)

\* prompt.invoke({"context": c, "question": x}).text: the template with both
\* variables formatted in
prompt_format(c, x) ==
    TemplateHead \o c \o TemplateQuestion \o PromptQuestion(x) \o TemplateTail

\* the query of the "context" branch: lambda x: x["question"]
RetrieverQuery(x) == x.question

\* the "question" branch of the second RunnableParallel: RunnablePassthrough()
\* hands on its input, the prompt value
SecondQuestion(prompt) == [text |-> prompt]

\* llm_invoke with the cache never consulted
llm_invoke_uncached(cache, prompt, fresh) == fresh

\* llm | StrOutputParser() with cache=True: a prompt the cache holds is
\* answered from it, fresh being what the model would answer to a request
llm_invoke(cache, prompt, fresh) ==
    IF prompt \in DOMAIN cache THEN cache[prompt] ELSE fresh

\* the cache after the generation step answered text to prompt
cache_update(cache, prompt, text) ==
    IF prompt \in DOMAIN cache THEN cache ELSE (prompt :> text) @@ cache

\* the texts returned per prompt, after text was returned for prompt
Record(gen, prompt, text) ==
    IF prompt \in DOMAIN gen
    THEN [gen EXCEPT ![prompt] = @ \cup {text}]
    ELSE (prompt :> {text}) @@ gen

\* the documents the retriever may return: at most top_n of them
top_n == 3

Doc1 == <<"Q", ":", " ">> \o AnswerBodyLabel \o <<" ", "n", "a", "p", "\n">>

Doc2 == <<"n", "o", " ", "l", "a", "b", "e", "l">>

RetrieverResults ==
    {ds \in {<< >>, <<Doc2, Doc1, Doc1>>} : Len(ds) <= top_n}

\* the texts the generation model may answer
LlmResults == {<< >>, <<" ", "\n">>, <<" ", "o", "k", "\n">>}

\* which external service fails during a call
Failures == {"none", "retriever", "llm"}

\* one operation's record before anything ran
NoRun(cache, gen) ==
    [guard_input_result |-> EmptyDict, scan_prompt_calls |-> << >>,
     retriever_calls |-> << >>, docs |-> << >>, answer_bodies |-> << >>,
     context |-> EmptyStr, prompt_text |-> EmptyStr, llm_calls |-> << >>,
     cache_hit |-> FALSE, llm_response |-> EmptyStr, guard_output_calls |-> << >>,
     scan_output_calls |-> << >>, guard_output_result |-> EmptyDict,
     raised |-> "None", output |-> EmptyDict, llm_cache |-> cache,
     generated |-> gen]

\* main_chain | RunnableLambda(llm_guard_output) on the dict x that
\* llm_guard_input returned, r being the record of the run so far
main_chain(r, x, fail, retrieved, fresh, oscan) ==
    IF "question" \notin DOMAIN x
    THEN [r EXCEPT !.raised = "KeyError"]
    ELSE IF fail = "retriever"
    THEN [r EXCEPT !.retriever_calls = <<RetrieverQuery(x)>>,
                   !.raised = "ServiceError"]
    ELSE
    LET c == format_docs(retrieved)
        p == prompt_format(c, x)
        r1 == [r EXCEPT !.retriever_calls = <<RetrieverQuery(x)>>,
                        !.docs = retrieved,
                        !.answer_bodies = format_docs_bodies(retrieved),
                        !.context = c,
                        !.prompt_text = p,
                        !.llm_calls = <<p>>]
    IN  IF fail = "llm" /\ p \notin DOMAIN r.llm_cache
        THEN [r1 EXCEPT !.raised = "ServiceError"]
        ELSE
        LET text == llm_invoke(r.llm_cache, p, fresh)
            llm_output == [llm_response |-> text, question |-> SecondQuestion(p)]
            go == llm_guard_output(llm_output, oscan)
        IN  [r1 EXCEPT !.cache_hit = p \in DOMAIN r.llm_cache,
                       !.llm_response = text,
                       !.llm_cache = cache_update(r.llm_cache, p, text),
                       !.generated = Record(r.generated, p, text),
                       !.guard_output_calls = <<llm_output>>,
                       !.scan_output_calls = go.scanned,
                       !.guard_output_result = go.result,
                       !.output = go.result]

\* guard_chain.invoke(input): RunnableLambda(llm_guard_input) | main_chain |
\* RunnableLambda(llm_guard_output); a sequence hands each step's output to
\* the next step
guard_chain(input, cache, gen, iscan, fail, retrieved, fresh, oscan) ==
    LET gi == llm_guard_input(input, iscan)
        r0 == [NoRun(cache, gen) EXCEPT !.guard_input_result = gi.result,
                                        !.scan_prompt_calls = gi.scanned]
    IN  main_chain(r0, gi.result, fail, retrieved, fresh, oscan)

----------------------------------------------------------------------------
(* chatbot_response                                                        *)

Raised(exc) == [kind |-> "raise", str |-> EmptyStr, dict |-> EmptyDict, exc |-> exc]

ReturnedStr(s) == [kind |-> "str", str |-> s, dict |-> EmptyDict, exc |-> "None"]

ReturnedDict(d) == [kind |-> "dict", str |-> EmptyStr, dict |-> d, exc |-> "None"]

ReturnedNone == [kind |-> "None", str |-> EmptyStr, dict |-> EmptyDict, exc |-> "None"]

ReturnedChain == [kind |-> "chain", str |-> EmptyStr, dict |-> EmptyDict, exc |-> "None"]

\* lines 222-224 on the chain's result
chatbot_response_return(response) ==
    IF "error" \in DOMAIN response
    THEN ReturnedStr(response.error)
    ELSE ReturnedDict(response)

\* what chatbot_response gives its caller for the run r of the chain
chatbot_response(r) ==
    IF r.raised # "None" THEN Raised(r.raised) ELSE chatbot_response_return(r.output)

\* create_chatbot_chain without the check of lines 168-169
create_chatbot_chain_unchecked(key) == ReturnedChain

\* create_chatbot_chain(retriever) under the credential setting key: lines
\* 168-169 raise, line 207 returns the chain
create_chatbot_chain(key) ==
    IF ~key THEN Raised("ValueError") ELSE ReturnedChain

----------------------------------------------------------------------------
(* The state machine                                                       *)

\* the largest number of prompts the cache holds in the model
MaxCache == 1

\* the questions callers ask
Questions == {<< >>, <<" ", "\t">>, <<" ", "h", "i", "\n">>}

\* the dicts llm_guard_input is called with
GuardInputs == {[lang |-> <<"e", "n">>]} \cup {[question |-> q] : q \in Questions}

SetRun(r) ==
    /\ guard_input_result' = r.guard_input_result
    /\ scan_prompt_calls' = r.scan_prompt_calls
    /\ retriever_calls' = r.retriever_calls
    /\ docs' = r.docs
    /\ answer_bodies' = r.answer_bodies
    /\ context' = r.context
    /\ prompt_text' = r.prompt_text
    /\ llm_calls' = r.llm_calls
    /\ cache_hit' = r.cache_hit
    /\ llm_response' = r.llm_response
    /\ guard_output_calls' = r.guard_output_calls
    /\ scan_output_calls' = r.scan_output_calls
    /\ guard_output_result' = r.guard_output_result
    /\ llm_cache' = r.llm_cache
    /\ generated' = r.generated

Init ==
    /\ OPENAI_API_KEY \in BOOLEAN
    /\ qa_chain = "None"
    /\ lastOp = "init"
    /\ question = EmptyStr
    /\ qa_input = EmptyDict
    /\ guard_input_result = EmptyDict
    /\ scan_prompt_calls = << >>
    /\ retriever_calls = << >>
    /\ docs = << >>
    /\ answer_bodies = << >>
    /\ context = EmptyStr
    /\ prompt_text = EmptyStr
    /\ llm_calls = << >>
    /\ cache_hit = FALSE
    /\ llm_response = EmptyStr
    /\ guard_output_calls = << >>
    /\ scan_output_calls = << >>
    /\ guard_output_result = EmptyDict
    /\ llm_cache = << >>
    /\ generated = << >>
    /\ outcome = ReturnedNone

\* settings.OPENAI_API_KEY is set or cleared
SetCredential(key) ==
    /\ key # OPENAI_API_KEY
    /\ OPENAI_API_KEY' = key
    /\ lastOp' = "settings"
    /\ question' = EmptyStr
    /\ qa_input' = EmptyDict
    /\ SetRun(NoRun(llm_cache, generated))
    /\ outcome' = ReturnedNone
    /\ UNCHANGED qa_chain

\* qa_chain = create_chatbot_chain(retriever): line 167 installs a new cache
\* before the credential is looked at
CreateChatbotChain ==
    /\ lastOp' = "create_chatbot_chain"
    /\ question' = EmptyStr
    /\ qa_input' = EmptyDict
    /\ SetRun(NoRun(<< >>, << >>))
    /\ outcome' = create_chatbot_chain(OPENAI_API_KEY)
    /\ qa_chain' = IF outcome'.kind = "chain" THEN "guard_chain" ELSE qa_chain
    /\ UNCHANGED OPENAI_API_KEY

\* the external answers a call can depend on: a service is reached only when
\* the steps before it let the call get there
IScans(input) ==
    IF GuardQuestion(input) = EmptyStr
    THEN {ScanPromptResult(EmptyStr, Len(input_scanners), TRUE)}
    ELSE ScanPromptOutcomes(GuardQuestion(input))

FailuresAfter(gi) == IF "question" \in DOMAIN gi.result THEN Failures ELSE {"none"}

RetrievedAfter(gi, fail) ==
    IF "question" \in DOMAIN gi.result /\ fail # "retriever"
    THEN RetrieverResults ELSE {<< >>}

FreshAfter(gi, fail, retrieved) ==
    IF "question" \in DOMAIN gi.result /\ fail = "none"
    THEN LlmResults ELSE {EmptyStr}

OScansAfter(gi, fail, retrieved, fresh) ==
    IF "question" \in DOMAIN gi.result /\ fail # "retriever"
    THEN LET p == prompt_format(format_docs(retrieved), gi.result)
             text == strip(llm_invoke(llm_cache, p, fresh))
         IN  IF (fail = "llm" /\ p \notin DOMAIN llm_cache) \/ text = EmptyStr
             THEN {[sanitized_response |-> EmptyStr,
                    results_valid |-> [i \in 1..Len(output_scanners) |-> TRUE]]}
             ELSE ScanOutputOutcomes(text)
    ELSE {[sanitized_response |-> EmptyStr,
           results_valid |-> [i \in 1..Len(output_scanners) |-> TRUE]]}

\* chatbot_response(q, qa_chain, langfuse_handler)
ChatbotResponse(q) ==
    /\ qa_chain = "guard_chain"
    /\ \E iscan \in IScans([question |-> q]) :
         \E gi \in {llm_guard_input([question |-> q], iscan)} :
         \E fail \in FailuresAfter(gi) :
         \E retrieved \in RetrievedAfter(gi, fail) :
         \E fresh \in FreshAfter(gi, fail, retrieved) :
         \E oscan \in OScansAfter(gi, fail, retrieved, fresh) :
         \E r \in {guard_chain([question |-> q], llm_cache, generated, iscan,
                              fail, retrieved, fresh, oscan)} :
                /\ Cardinality(DOMAIN r.llm_cache) <= MaxCache
                /\ lastOp' = "chatbot_response"
                /\ question' = q
                /\ qa_input' = [question |-> q]
                /\ SetRun(r)
                /\ outcome' = chatbot_response(r)
    /\ UNCHANGED <<OPENAI_API_KEY, qa_chain>>

\* llm_guard_input(input) called on its own
LlmGuardInput(input) ==
    /\ \E iscan \in IScans(input) :
         LET gi == llm_guard_input(input, iscan)
         IN  /\ SetRun([NoRun(llm_cache, generated) EXCEPT
                           !.guard_input_result = gi.result,
                           !.scan_prompt_calls = gi.scanned])
             /\ outcome' = ReturnedDict(gi.result)
    /\ lastOp' = "llm_guard_input"
    /\ question' = EmptyStr
    /\ qa_input' = input
    /\ UNCHANGED <<OPENAI_API_KEY, qa_chain>>

Next ==
    \/ \E key \in BOOLEAN : SetCredential(key)
    \/ CreateChatbotChain
    \/ \E q \in Questions : ChatbotResponse(q)
    \/ \E input \in GuardInputs : LlmGuardInput(input)

Spec == Init /\ [][Next]_vars

----------------------------------------------------------------------------
(* format_docs on its own, over every short list of documents              *)

\* the longest list of documents format_docs is applied to here
MaxDocs == 2

Pieces == {<< >>, <<" ">>, <<"a">>, AnswerBodyLabel}

\* page_content values: with and without the label, with the label twice,
\* with whitespace around the answer body, with a cut-off label
DocContents ==
    {p1 \o p2 : p1, p2 \in Pieces}
    \cup {<<"a", " ">> \o AnswerBodyLabel \o <<" ", "a", " ", "a", "\n">>,
          AnswerBodyLabel \o <<"a">> \o AnswerBodyLabel \o <<"\t">>,
          <<"A", "n", "s", "w", "e", "r", "B", "o", "d", "y">>}

DocLists == UNION {[1..n -> DocContents] : n \in 0..MaxDocs}

InitFmt ==
    /\ Init
    /\ OPENAI_API_KEY = TRUE

\* retriever | format_docs: the retriever hands format_docs a list of documents
FormatDocs(ds) ==
    /\ lastOp = "init"
    /\ lastOp' = "format_docs"
    /\ docs' = ds
    /\ answer_bodies' = format_docs_bodies(ds)
    /\ context' = format_docs(ds)
    /\ UNCHANGED <<OPENAI_API_KEY, qa_chain, llm_cache, generated, question,
                   qa_input, guard_input_result, scan_prompt_calls,
                   retriever_calls, prompt_text, llm_calls, cache_hit,
                   llm_response, guard_output_calls, scan_output_calls,
                   guard_output_result, outcome>>

NextFmt == \E ds \in DocLists : FormatDocs(ds)

SpecFmt == InitFmt /\ [][NextFmt]_vars

----------------------------------------------------------------------------
(* Properties                                                              *)

AllWhitespace(t) == \A i \in 1..Len(t) : t[i] \in Whitespace

\* the operation ran llm_guard_input
RanInputGuard == lastOp \in {"chatbot_response", "llm_guard_input"}

\* llm_guard_input rejected its input
InputRejected == RanInputGuard /\ "error" \in DOMAIN guard_input_result

\* llm_guard_input let its input pass
InputPassed == RanInputGuard /\ "question" \in DOMAIN guard_input_result

\* C1: a chatbot_response call whose question llm_guard_input rejects returns
\* exactly llm_guard_input's error string, as a value, and runs neither the
\* retriever nor the generation step nor llm_guard_output.
C1_RejectionReturnsError ==
    (lastOp = "chatbot_response" /\ InputRejected) =>
        /\ outcome.kind = "str"
        /\ outcome.str = guard_input_result.error
        /\ retriever_calls = << >>
        /\ llm_calls = << >>
        /\ guard_output_calls = << >>

\* C2: a chatbot_response call in which no external service fails returns a
\* plain string: the error string when the chain's result has "error", else
\* the "response" string of llm_guard_output's result. Stated here for the
\* calls in which the chain hands chatbot_response a result, the calls that
\* reach lines 222-224.
C2_ReturnsString ==
    (lastOp = "chatbot_response" /\ outcome.kind # "raise") =>
        /\ outcome.kind = "str"
        /\ InputRejected => outcome.str = guard_input_result.error
        /\ ~InputRejected => /\ guard_output_calls # << >>
                             /\ outcome.str = guard_output_result.response

C4_SanitizedEverywhere ==
    (lastOp = "chatbot_response" /\ InputPassed /\ llm_calls # << >>) =>
        /\ retriever_calls = <<guard_input_result.question>>
        /\ prompt_text = TemplateHead \o context \o TemplateQuestion
                            \o guard_input_result.question \o TemplateTail

\* C5: for an input whose question is empty, whitespace only or absent,
\* llm_guard_input returns the fixed invalid-input error and calls no scanner.
C5_BlankQuestionRejected ==
    (RanInputGuard /\ AllWhitespace(get(qa_input, "question", EmptyStr))) =>
        /\ DOMAIN guard_input_result = {"error"}
        /\ guard_input_result.error = InvalidInputMsg
        /\ scan_prompt_calls = << >>

C5_Witness ==
    /\ lastOp = "llm_guard_input"
    /\ "question" \in DOMAIN qa_input
    /\ Len(qa_input.question) > 0
    /\ AllWhitespace(qa_input.question)
    /\ scan_prompt_calls = << >>

\* C6: for a generated text that is empty after trimming, llm_guard_output
\* returns the fixed refusal under "response" and calls no output scanner.
C6_BlankOutputRefused ==
    \A i \in 1..Len(guard_output_calls) :
        AllWhitespace(guard_output_calls[i].llm_response) =>
            /\ DOMAIN guard_output_result = {"response"}
            /\ guard_output_result.response = RefusalMsg
            /\ scan_output_calls = << >>

C6_Witness ==
    /\ Len(guard_output_calls) = 1
    /\ Len(guard_output_calls[1].llm_response) > 0
    /\ AllWhitespace(guard_output_calls[1].llm_response)
    /\ scan_output_calls = << >>

\* C7: create_chatbot_chain without a configured credential raises and returns
\* no chain, and no call of a chain that exists ends in the credential error,
\* whatever the credential setting is by then.
C7_CredentialCheckedAtConstruction ==
    /\ (lastOp = "create_chatbot_chain" /\ ~OPENAI_API_KEY) =>
            (outcome.kind = "raise" /\ outcome.exc = "ValueError")
    /\ lastOp = "chatbot_response" => outcome.exc # "ValueError"

C7_Witness ==
    /\ lastOp = "create_chatbot_chain"
    /\ ~OPENAI_API_KEY
    /\ outcome.exc = "ValueError"
    /\ qa_chain = "None"

\* C8: a rejection by llm_guard_input is a dict with the key "error" alone, and
\* every result of llm_guard_output is a dict with the key "response" alone.
C8_ExactlyOneKey ==
    /\ (RanInputGuard /\ ~InputPassed) => DOMAIN guard_input_result = {"error"}
    /\ InputRejected => DOMAIN guard_input_result = {"error"}
    /\ guard_output_calls # << >> => DOMAIN guard_output_result = {"response"}

C8_Witness ==
    /\ guard_output_calls # << >>
    /\ guard_output_result.response = ResponseRejectedMsg

\* C9: while one cache object is installed, the generation step returns one
\* and the same text for a prompt however often it is asked, and a call
\* answered from the cache returns that text.
C9_SamePromptSameText ==
    /\ \A p \in DOMAIN generated : Cardinality(generated[p]) = 1
    /\ cache_hit => generated[prompt_text] = {llm_response}

C9_Witness ==
    /\ lastOp = "chatbot_response"
    /\ cache_hit
    /\ llm_response # EmptyStr

\* the label starts at the 1-based position i of content
LabelAt(content, i) ==
    /\ i + Len(AnswerBodyLabel) - 1 <= Len(content)
    /\ SubSeq(content, i, i + Len(AnswerBodyLabel) - 1) = AnswerBodyLabel

HasLabel(content) == \E i \in 1..Len(content) : LabelAt(content, i)

\* the text after the first occurrence of the label
AfterFirstLabel(content) ==
    LET first == CHOOSE i \in 1..Len(content) :
                    LabelAt(content, i) /\ \A j \in 1..(i - 1) : ~LabelAt(content, j)
    IN  SubSeq(content, first + Len(AnswerBodyLabel), Len(content))

\* t without its leading and trailing whitespace
Trimmed(t) ==
    LET solid == {i \in 1..Len(t) : t[i] \notin Whitespace}
    IN  IF solid = {} THEN << >>
        ELSE SubSeq(t, CHOOSE i \in solid : \A j \in solid : i <= j,
                       CHOOSE i \in solid : \A j \in solid : i >= j)

\* the answer bodies of the documents that hold the label, in order
ExpectedBodies(ds) ==
    LET labelled == SelectSeq(ds, HasLabel)
    IN  [k \in 1..Len(labelled) |-> Trimmed(AfterFirstLabel(labelled[k]))]

RECURSIVE SegmentsFrom(_, _)
SegmentsFrom(bodies, k) ==
    IF k > Len(bodies) THEN << >>
    ELSE (IF k > 1 THEN <<"\n", "\n">> ELSE << >>) \o bodies[k]
            \o SegmentsFrom(bodies, k + 1)

\* C10: format_docs returns the answer bodies of the documents holding the
\* label, in the order of the documents and joined by a double newline; a
\* document without the label adds no segment and no separator.
C10_FormatDocs ==
    lastOp = "format_docs" =>
        /\ Len(answer_bodies) = Cardinality({i \in 1..Len(docs) : HasLabel(docs[i])})
        /\ answer_bodies = ExpectedBodies(docs)
        /\ context = SegmentsFrom(ExpectedBodies(docs), 1)

C10_Witness ==
    /\ lastOp = "format_docs"
    /\ Len(docs) = 2
    /\ ~HasLabel(docs[1])
    /\ HasLabel(docs[2])
    /\ LabelAt(AfterFirstLabel(docs[2]), 2)
    /\ context # EmptyStr

====
